---- MODULE Spec2Model ----
(***************************************************************************)
(* Model of src/influxdb3.js: the Node-RED nodes "influxdb3" (config),     *)
(* "influxdb3 out", "influxdb3 batch" and "influxdb3 in".                   *)
(*                                                                         *)
(* An input handler is an async function: it runs without interruption up  *)
(* to its next await, so one action of the model is one such run (from the *)
(* delivery of a message, or from the settling of the awaited client call, *)
(* up to the next client call or to done).  The client library, the host's *)
(* send/done callbacks and the rows a query yields are the environment.    *)
(* msg.database / msg.queryType only select arguments that are passed      *)
(* through to the client and take no part in the control flow; they are    *)
(* not modelled.                                                           *)
(***************************************************************************)
EXTENDS Integers, Sequences, FiniteSets

\* ---------------------------------------------------------------- bounds
MaxLen == 2        \* longest payload array
MaxRows == 2       \* longest row sequence a query yields
MaxInFlight == 2   \* handler invocations that may be in flight at once

\* ------------------------------------------------------ JavaScript values
\* Every value is a record tagged with t; strings are sequences of characters.
Undefined == [t |-> "undefined"]
JNull == [t |-> "null"]
JNum(i, f) == [t |-> "number", n |-> i, frac |-> f]   \* i + 0.f
JStr(s) == [t |-> "string", s |-> s]
JBool(b) == [t |-> "boolean", b |-> b]
Obj(f) == [t |-> "object", o |-> f]                   \* plain object: key -> value
Arr(s) == [t |-> "array", a |-> s]

EmptyMap == [k \in {} |-> Undefined]

isPlainObject(v) == v.t = "object"
isArray(v) == v.t = "array"

\* JavaScript truthiness (the !x and x && ... tests of the source).
Truthy(v) ==
    CASE v.t = "undefined" -> FALSE
      [] v.t = "null" -> FALSE
      [] v.t = "number" -> ~(v.n = 0 /\ v.frac = 0)
      [] v.t = "string" -> v.s # <<>>
      [] v.t = "boolean" -> v.b
      [] OTHER -> TRUE

\* Reading x[k] / x.k throws a TypeError exactly when x is null or undefined.
Nullish(v) == v.t \in {"null", "undefined"}

\* obj.k for a property name k (x.k with x not nullish).
Get(v, k) == IF v.t = "object" /\ k \in DOMAIN v.o THEN v.o[k] ELSE Undefined

\* x[i] for a zero-based index i (x not nullish).
Index(v, i) ==
    CASE v.t = "array" -> IF i + 1 \in DOMAIN v.a THEN v.a[i + 1] ELSE Undefined
      [] v.t = "string" -> IF i + 1 \in DOMAIN v.s THEN JStr(<<v.s[i + 1]>>) ELSE Undefined
      [] OTHER -> Undefined

Digits == <<"0", "1", "2", "3", "4", "5", "6", "7", "8", "9">>
IsDigit(c) == \E d \in DOMAIN Digits : Digits[d] = c
DigitVal(c) == (CHOOSE d \in DOMAIN Digits : Digits[d] = c) - 1

RECURSIVE NatToChars(_)
NatToChars(n) == IF n < 10 THEN <<Digits[n + 1]>>
                 ELSE NatToChars(n \div 10) \o <<Digits[(n % 10) + 1]>>

RECURSIVE CharsToNat(_)
CharsToNat(s) == IF s = <<>> THEN 0
                 ELSE 10 * CharsToNat(SubSeq(s, 1, Len(s) - 1)) + DigitVal(s[Len(s)])

IntToChars(n) == IF n < 0 THEN <<"-">> \o NatToChars(0 - n) ELSE NatToChars(n)

\* String(value)
RECURSIVE String(_)
RECURSIVE Join(_)
String(v) ==
    CASE v.t = "undefined" -> <<"u", "n", "d", "e", "f", "i", "n", "e", "d">>
      [] v.t = "null" -> <<"n", "u", "l", "l">>
      [] v.t = "number" -> IF v.frac = 0 THEN IntToChars(v.n)
                           ELSE IntToChars(v.n) \o <<".">> \o NatToChars(v.frac)
      [] v.t = "string" -> v.s
      [] v.t = "boolean" -> IF v.b THEN <<"t", "r", "u", "e">>
                            ELSE <<"f", "a", "l", "s", "e">>
      [] v.t = "array" -> Join(v.a)
      [] OTHER -> <<"[", "o", "b", "j", "e", "c", "t", " ",
                    "O", "b", "j", "e", "c", "t", "]">>
Join(s) ==
    IF s = <<>> THEN <<>>
    ELSE LET h == IF Nullish(s[1]) THEN <<>> ELSE String(s[1])
         IN IF Len(s) = 1 THEN h ELSE h \o <<",">> \o Join(Tail(s))

\* ------------------------------------------------------------------ Point
\* new Point(measurement): no fields, no tags, no timestamp.
NewPoint(measurement) ==
    [measurement |-> measurement, fields |-> EmptyMap, tags |-> EmptyMap,
     timestamp |-> Undefined]

Put(f, k, v) == [x \in DOMAIN f \cup {k} |-> IF x = k THEN v ELSE f[x]]

intField(point, name, n) ==
    [point EXCEPT !.fields = Put(@, name, [ty |-> "Integer", n |-> n])]
floatField(point, name, v) ==
    [point EXCEPT !.fields = Put(@, name, [ty |-> "Float", n |-> v.n, frac |-> v.frac])]
stringField(point, name, s) ==
    [point EXCEPT !.fields = Put(@, name, [ty |-> "String", s |-> s])]
booleanField(point, name, b) ==
    [point EXCEPT !.fields = Put(@, name, [ty |-> "Boolean", b |-> b])]
tag(point, name, s) == [point EXCEPT !.tags = Put(@, name, s)]
timestamp(point, value) == [point EXCEPT !.timestamp = value]

\* /^-?\d+i$/.test(s)
IsIntegerString(s) ==
    /\ Len(s) >= 2
    /\ s[Len(s)] = "i"
    /\ LET body == SubSeq(s, 1, Len(s) - 1)
           digs == IF body[1] = "-" THEN Tail(body) ELSE body
       IN /\ digs # <<>>
          /\ \A j \in DOMAIN digs : IsDigit(digs[j])

\* parseInt(value.substring(0, value.length - 1))
ParseIntString(s) ==
    LET body == SubSeq(s, 1, Len(s) - 1)
    IN IF body[1] = "-" THEN 0 - CharsToNat(Tail(body)) ELSE CharsToNat(body)

addFieldToPoint(point, name, value) ==
    CASE value.t = "number" ->
            IF value.frac = 0 THEN intField(point, name, value.n)
            ELSE floatField(point, name, value)
      [] value.t = "string" ->
            IF IsIntegerString(value.s) THEN intField(point, name, ParseIntString(value.s))
            ELSE stringField(point, name, value.s)
      [] value.t = "boolean" -> booleanField(point, name, value.b)
      [] OTHER -> stringField(point, name, String(value))

\* --------------------------------------------------------- point building
\* Object.entries(o) is walked key by key; the keys of one object are distinct,
\* and each sets its own field, tag or the timestamp, so the order is immaterial.
RECURSIVE FieldsWithTime(_, _, _)
FieldsWithTime(point, o, keys) ==
    IF keys = {} THEN point
    ELSE LET key == CHOOSE k \in keys : TRUE
         IN FieldsWithTime(IF key = "time" THEN timestamp(point, o[key])
                           ELSE addFieldToPoint(point, key, o[key]),
                           o, keys \ {key})

RECURSIVE FieldsPlain(_, _, _)
FieldsPlain(point, o, keys) ==
    IF keys = {} THEN point
    ELSE LET key == CHOOSE k \in keys : TRUE
         IN FieldsPlain(addFieldToPoint(point, key, o[key]), o, keys \ {key})

RECURSIVE Tags(_, _, _)
Tags(point, o, keys) ==
    IF keys = {} THEN point
    ELSE LET key == CHOOSE k \in keys : TRUE
         IN Tags(tag(point, key, String(o[key])), o, keys \ {key})

RECURSIVE DataEntries(_, _, _)
DataEntries(point, o, keys) ==
    IF keys = {} THEN point
    ELSE LET key == CHOOSE k \in keys : TRUE
             value == o[key]
         IN DataEntries(IF key = "time" THEN timestamp(point, value)
                        ELSE IF key = "tags" /\ isPlainObject(value)
                             THEN Tags(point, value.o, DOMAIN value.o)
                             ELSE addFieldToPoint(point, key, value),
                        o, keys \ {key})

\* createPointFromData without its branch for the tags key.
createPointFromDataTagsAsField(measurement, data) ==
    IF isPlainObject(data) THEN FieldsWithTime(NewPoint(measurement), data.o, DOMAIN data.o)
    ELSE addFieldToPoint(NewPoint(measurement), "value", data)

createPointFromData(measurement, data) ==
    IF isPlainObject(data) THEN DataEntries(NewPoint(measurement), data.o, DOMAIN data.o)
    ELSE addFieldToPoint(NewPoint(measurement), "value", data)

\* One point from a [fields, tags] pair (pair is not nullish).
PointFromPair(measurement, pair) ==
    LET f == Index(pair, 0)
        g == Index(pair, 1)
        p1 == IF Truthy(f) /\ isPlainObject(f)
              THEN FieldsWithTime(NewPoint(measurement), f.o, DOMAIN f.o)
              ELSE NewPoint(measurement)
    IN IF Truthy(g) /\ isPlainObject(g) THEN Tags(p1, g.o, DOMAIN g.o) ELSE p1

\* The elements before the first null/undefined one (all of them if there is none).
SafePrefixLen(a) ==
    IF \E j \in DOMAIN a : Nullish(a[j])
    THEN (CHOOSE j \in DOMAIN a : Nullish(a[j]) /\ \A l \in 1..(j - 1) : ~Nullish(a[l])) - 1
    ELSE Len(a)

\* OutPoints with points.unshift(point) in place of points.push(point).
OutPointsReversed(measurement, payload) ==
    IF isArray(payload) /\ Len(payload.a) > 0 /\ isArray(payload.a[1])
    THEN LET n == SafePrefixLen(payload.a)
         IN [threw |-> n < Len(payload.a),
             points |-> [j \in 1..n |->
                           [p |-> PointFromPair(measurement, payload.a[n + 1 - j]),
                            src |-> n + 1 - j]]]
    ELSE [threw |-> FALSE,
          points |-> <<[p |-> IF isArray(payload) THEN PointFromPair(measurement, payload)
                              ELSE createPointFromData(measurement, payload),
                        src |-> 0]>>]

\* The points list of the out node's handler: [threw, points], where each entry
\* of points carries the point and the payload index it was built from (src, 0
\* for a point built from the payload as a whole).  element[0] on a null or
\* undefined element throws a TypeError out of forEach.
OutPoints(measurement, payload) ==
    IF isArray(payload)
    THEN IF Len(payload.a) > 0 /\ isArray(payload.a[1])
         THEN LET n == SafePrefixLen(payload.a)
              IN [threw |-> n < Len(payload.a),
                  points |-> [j \in 1..n |->
                                [p |-> PointFromPair(measurement, payload.a[j]),
                                 src |-> j]]]
         ELSE [threw |-> FALSE,
               points |-> <<[p |-> PointFromPair(measurement, payload), src |-> 0]>>]
    ELSE [threw |-> FALSE,
          points |-> <<[p |-> createPointFromData(measurement, payload), src |-> 0]>>]

\* The point of one batch item (item.measurement is truthy).
BatchPoint(item) ==
    LET f == Get(item, "fields")
        g == Get(item, "tags")
        ts == Get(item, "timestamp")
        p0 == NewPoint(Get(item, "measurement"))
        p1 == IF Truthy(f) /\ isPlainObject(f) THEN FieldsPlain(p0, f.o, DOMAIN f.o) ELSE p0
        p2 == IF Truthy(g) /\ isPlainObject(g) THEN Tags(p1, g.o, DOMAIN g.o) ELSE p1
    IN IF Truthy(ts) THEN timestamp(p2, ts) ELSE p2

\* The batch loop from item j on, up to its next await: it skips the items with
\* no truthy measurement, throws on a null/undefined item (item.measurement),
\* and stops at the first item it writes or at the end of the payload.
RECURSIVE BatchScan(_, _)
BatchScan(a, j) ==
    IF j > Len(a) THEN [kind |-> "end", at |-> j]
    ELSE IF Nullish(a[j]) THEN [kind |-> "throw", at |-> j]
    ELSE IF ~Truthy(Get(a[j], "measurement")) THEN BatchScan(a, j + 1)
    ELSE [kind |-> "write", at |-> j]

\* ------------------------------------------------------------------ state
Nodes == {"out", "batch", "in"}
Msgs == 1..MaxInFlight

VARIABLES
    config,           \* the config node: "unbuilt", "missing" (the flow names no
                      \* config node), "ok" (this.client set), "failed" (constructor threw)
    constructCalls,   \* number of new InfluxDBClient(...) calls made so far
    handler,          \* per node: "none" (not constructed), "registered", "inert"
    nodeMeasurement,  \* n.measurement of the out node
    nodeQuery,        \* n.query of the in node
    inv               \* per slot: one invocation of an input handler

vars == <<config, constructCalls, handler, nodeMeasurement, nodeQuery, inv>>

\* One handler invocation.  msg is the message object (mutated in place by the
\* handler), points the points built so far, i the loop position, results the
\* rows collected.  The rest records what the handler did to its environment:
\* wlog the points passed to client.write in call order, produced the rows the
\* client yielded, trace the events of this invocation in order, dones the
\* calls of done (argument and the message as it was then), sent the messages
\* passed to send.
Idle ==
    [st |-> "idle", node |-> "none", msg |-> Undefined, points |-> <<>>, i |-> 0,
     results |-> <<>>, wlog |-> <<>>, produced |-> <<>>, trace |-> <<>>,
     dones |-> <<>>, sent |-> <<>>]

HasOwn(msg, k) == k \in DOMAIN msg.o
MsgSet(msg, k, v) == Obj(Put(msg.o, k, v))

\* RED._(key): the catalogue text of key.
I18n(key) == [t |-> "i18n", key |-> key]
Error(message) == [t |-> "error", message |-> message]
TypeError == Error("TypeError: cannot read properties of null or undefined")
ClientError == Error("error thrown by the client")
NotArrayError == Error("Payload must be an array for batch operations")

\* done(arg)
CallDone(h, arg) ==
    [h EXCEPT !.st = "done",
              !.dones = Append(@, [arg |-> arg, msg |-> h.msg]),
              !.trace = Append(@, "done")]

\* catch (error) { msg.influx_error = {errorMessage: error.message}; done(error); }
Catch(h, error) ==
    CallDone([h EXCEPT !.msg = MsgSet(@, "influx_error",
                  Obj([k \in {"errorMessage"} |-> [t |-> "text", text |-> error.message]]))],
             error)

\* await client.write(point.toLineProtocol(), database)
CallWrite(h, entry) ==
    [h EXCEPT !.st = "awaitWrite",
              !.wlog = Append(@, entry),
              !.trace = Append(@, "write")]

\* for (const point of points) { await write(point) }  done();   at position h.i
OutLoop(h) ==
    IF h.i > Len(h.points) THEN CallDone(h, Undefined)
    ELSE CallWrite(h, h.points[h.i])

\* for (const item of msg.payload) { ... await write(point) }  done();  from item h.i
BatchLoop(h) ==
    LET a == h.msg.o.payload.a
        s == BatchScan(a, h.i)
        h1 == [h EXCEPT !.i = s.at]
    IN CASE s.kind = "end" -> CallDone(h1, Undefined)
         [] s.kind = "throw" -> Catch(h1, TypeError)
         [] OTHER -> LET entry == [p |-> BatchPoint(a[s.at]), src |-> s.at]
                     IN CallWrite([h1 EXCEPT !.points = Append(@, entry)], entry)

\* The loop goes on to its next iteration.
Resume(h) ==
    LET h1 == [h EXCEPT !.i = @ + 1]
    IN IF h.node = "out" THEN OutLoop(h1) ELSE BatchLoop(h1)

\* The awaited write fulfilled / rejected.
AfterResolve(h) == Resume([h EXCEPT !.trace = Append(@, "wok")])

\* AfterReject with the try/catch inside the loop: the error is skipped over.
AfterRejectContinue(h) == Resume([h EXCEPT !.trace = Append(@, "werr")])

AfterReject(h) == Catch([h EXCEPT !.trace = Append(@, "werr")], ClientError)

\* NoMeasurement as if (measurement === undefined).
NoMeasurementOnlyUndefined(measurement) == measurement.t = "undefined"

\* if (!measurement)
NoMeasurement(measurement) == ~Truthy(measurement)

\* if (!query)
NoQuery(query) == ~Truthy(query)

\* CollectRow as results.unshift(row).
CollectRowFront(results, row) == <<row>> \o results

\* results.push(row)
CollectRow(results, row) == Append(results, row)

\* ClientAvailable with the guard on the client dropped.
ClientAvailableAlways == TRUE

\* this.influxdbConfig.client is set (the guard of the three node constructors).
ClientAvailable == config = "ok"

\* ---------------------------------------------------------------- actions
Init ==
    /\ config = "unbuilt"
    /\ constructCalls = 0
    /\ handler = [n \in Nodes |-> "none"]
    /\ nodeMeasurement = Undefined
    /\ nodeQuery = Undefined
    /\ inv = [m \in Msgs |-> Idle]

\* The config node's constructor: new InfluxDBClient(options) returns or throws.
InfluxConfigNode ==
    /\ config = "unbuilt"
    /\ \E ok \in BOOLEAN : config' = IF ok THEN "ok" ELSE "failed"
    /\ constructCalls' = constructCalls + 1
    /\ UNCHANGED <<handler, nodeMeasurement, nodeQuery, inv>>

\* A flow whose nodes name no config node: RED.nodes.getNode returns nothing.
NoConfigNode ==
    /\ config = "unbuilt"
    /\ config' = "missing"
    /\ UNCHANGED <<constructCalls, handler, nodeMeasurement, nodeQuery, inv>>

Registers ==
    IF config # "missing" /\ ClientAvailable THEN "registered" ELSE "inert"

InfluxOutNode(measurement) ==
    /\ config # "unbuilt"
    /\ handler["out"] = "none"
    /\ nodeMeasurement' = measurement
    /\ handler' = [handler EXCEPT !["out"] = Registers]
    /\ UNCHANGED <<config, constructCalls, nodeQuery, inv>>

InfluxBatchNode ==
    /\ config # "unbuilt"
    /\ handler["batch"] = "none"
    /\ handler' = [handler EXCEPT !["batch"] = Registers]
    /\ UNCHANGED <<config, constructCalls, nodeMeasurement, nodeQuery, inv>>

InfluxInNode(query) ==
    /\ config # "unbuilt"
    /\ handler["in"] = "none"
    /\ nodeQuery' = query
    /\ handler' = [handler EXCEPT !["in"] = Registers]
    /\ UNCHANGED <<config, constructCalls, nodeMeasurement, inv>>

\* The flows start once every node is constructed.
Started == \A n \in Nodes : handler[n] # "none"

Begin(n, msg) == [Idle EXCEPT !.node = n, !.msg = msg, !.i = 1]

\* The host emits "input" on a node that registered no listener: nothing runs.
Unhandled(m, n, msg) ==
    /\ Started
    /\ handler[n] = "inert"
    /\ inv[m].st = "idle"
    /\ inv' = [inv EXCEPT ![m] = [Begin(n, msg) EXCEPT !.st = "unhandled"]]
    /\ UNCHANGED <<config, constructCalls, handler, nodeMeasurement, nodeQuery>>

OutInput(m, msg) ==
    /\ Started
    /\ handler["out"] = "registered"
    /\ inv[m].st = "idle"
    /\ LET h == Begin("out", msg)
           measurement == IF HasOwn(msg, "measurement") THEN msg.o.measurement
                          ELSE nodeMeasurement
           r == OutPoints(measurement, Get(msg, "payload"))
       IN inv' = [inv EXCEPT ![m] =
                    IF NoMeasurement(measurement)
                    THEN CallDone(h, I18n("influxdb.errors.nomeasurement"))
                    ELSE IF r.threw
                         THEN Catch([h EXCEPT !.points = r.points], TypeError)
                         ELSE OutLoop([h EXCEPT !.points = r.points])]
    /\ UNCHANGED <<config, constructCalls, handler, nodeMeasurement, nodeQuery>>

BatchInput(m, msg) ==
    /\ Started
    /\ handler["batch"] = "registered"
    /\ inv[m].st = "idle"
    /\ LET h == Begin("batch", msg)
       IN inv' = [inv EXCEPT ![m] =
                    IF ~isArray(Get(msg, "payload")) THEN CallDone(h, NotArrayError)
                    ELSE BatchLoop(h)]
    /\ UNCHANGED <<config, constructCalls, handler, nodeMeasurement, nodeQuery>>

WriteResolve(m) ==
    /\ inv[m].st = "awaitWrite"
    /\ inv' = [inv EXCEPT ![m] = AfterResolve(@)]
    /\ UNCHANGED <<config, constructCalls, handler, nodeMeasurement, nodeQuery>>

WriteReject(m) ==
    /\ inv[m].st = "awaitWrite"
    /\ inv' = [inv EXCEPT ![m] = AfterReject(@)]
    /\ UNCHANGED <<config, constructCalls, handler, nodeMeasurement, nodeQuery>>

InInput(m, msg) ==
    /\ Started
    /\ handler["in"] = "registered"
    /\ inv[m].st = "idle"
    /\ LET h == Begin("in", msg)
           query == IF HasOwn(msg, "query") THEN msg.o.query ELSE nodeQuery
       IN inv' = [inv EXCEPT ![m] =
                    IF NoQuery(query) THEN CallDone(h, I18n("influxdb.errors.noquery"))
                    ELSE [h EXCEPT !.st = "awaitQuery", !.trace = Append(@, "query")]]
    /\ UNCHANGED <<config, constructCalls, handler, nodeMeasurement, nodeQuery>>

\* await client.query(...) fulfilled: the for await loop asks for the first row.
QueryResolve(m) ==
    /\ inv[m].st = "awaitQuery"
    /\ inv' = [inv EXCEPT ![m] = [@ EXCEPT !.st = "draining", !.trace = Append(@, "qok")]]
    /\ UNCHANGED <<config, constructCalls, handler, nodeMeasurement, nodeQuery>>

QueryReject(m) ==
    /\ inv[m].st = "awaitQuery"
    /\ inv' = [inv EXCEPT ![m] = Catch([@ EXCEPT !.trace = Append(@, "qerr")], ClientError)]
    /\ UNCHANGED <<config, constructCalls, handler, nodeMeasurement, nodeQuery>>

\* The row sequence yields a row.
RowNext(m, row) ==
    /\ inv[m].st = "draining"
    /\ Len(inv[m].produced) < MaxRows
    /\ inv' = [inv EXCEPT ![m] = [@ EXCEPT !.produced = Append(@, row),
                                           !.results = CollectRow(@, row),
                                           !.trace = Append(@, "row")]]
    /\ UNCHANGED <<config, constructCalls, handler, nodeMeasurement, nodeQuery>>

\* The row sequence ends: msg.payload = results; send(msg); done();
RowEnd(m) ==
    /\ inv[m].st = "draining"
    /\ LET h == inv[m]
           out == MsgSet(h.msg, "payload", Arr(h.results))
       IN inv' = [inv EXCEPT ![m] =
                    CallDone([h EXCEPT !.msg = out,
                                       !.sent = Append(@, out),
                                       !.trace = @ \o <<"end", "send">>],
                             Undefined)]
    /\ UNCHANGED <<config, constructCalls, handler, nodeMeasurement, nodeQuery>>

\* The row sequence throws while it is drained.
RowError(m) ==
    /\ inv[m].st = "draining"
    /\ inv' = [inv EXCEPT ![m] = Catch([@ EXCEPT !.trace = Append(@, "rowerr")], ClientError)]
    /\ UNCHANGED <<config, constructCalls, handler, nodeMeasurement, nodeQuery>>

\* The invocation is over and the host lets go of the message.
Release(m) ==
    /\ inv[m].st \in {"done", "unhandled"}
    /\ inv' = [inv EXCEPT ![m] = Idle]
    /\ UNCHANGED <<config, constructCalls, handler, nodeMeasurement, nodeQuery>>

\* ----------------------------------------------------------------- inputs
Num42 == JNum(42, 0)
Num1000 == JNum(1000, 0)
Num1_5 == JNum(1, 5)
StrA == JStr(<<"a">>)
Str7i == JStr(<<"7", "i">>)
Scalars == {Num42, Num1_5, StrA, Str7i, JBool(TRUE), JNull}

ObjT == Obj([k \in {"t"} |-> StrA])
ObjX == Obj([k \in {"x"} |-> Num42])
ObjTimeX == Obj([k \in {"time", "x"} |-> IF k = "time" THEN Num1000 ELSE Str7i])

\* Plain objects over the keys x, time and tags.
Allowed(k) == CASE k = "x" -> {Num42}
                [] k = "time" -> {Num1000}
                [] OTHER -> {ObjT, StrA}
Objects ==
    {Obj(f) : f \in UNION {{g \in [K -> {Num42, Num1000, ObjT, StrA}] :
                              \A k \in K : g[k] \in Allowed(k)} :
                           K \in SUBSET {"x", "time", "tags"}}}

Arrays(elems) == {Arr(a) : a \in UNION {[1..n -> elems] : n \in 0..MaxLen}}

OutElems == {JNull, Num42, ObjX, ObjTimeX, ObjT,
             Arr(<<>>), Arr(<<ObjTimeX>>), Arr(<<ObjX, ObjT>>)}
OutPayloads == Scalars \cup Objects \cup Arrays(OutElems)

Msg(payload) == Obj([k \in {"payload"} |-> payload])
MsgWith(payload, k2, v2) ==
    Obj([k \in {"payload", k2} |-> IF k = "payload" THEN payload ELSE v2])

NodeMeasurements == {JStr(<<>>), JStr(<<"m">>)}
MsgMeasurements == {JStr(<<>>), JStr(<<"m", "2">>)}
OutMsgs == {Msg(p) : p \in OutPayloads}
           \cup {MsgWith(p, "measurement", v) : p \in OutPayloads, v \in MsgMeasurements}

Item(measurement, rest) ==
    Obj([k \in {"measurement"} \cup DOMAIN rest |->
           IF k = "measurement" THEN measurement ELSE rest[k]])
ItemA == Item(StrA, [fields |-> ObjX])
ItemB == Item(JStr(<<"b">>), [fields |-> ObjTimeX, tags |-> ObjT, timestamp |-> Num1000])
ItemNoMeasurement == Obj([k \in {"fields"} |-> ObjX])
ItemEmptyMeasurement == Item(JStr(<<>>), [fields |-> ObjX])
ItemNoFields == Item(JStr(<<"c">>), [tags |-> ObjT])
BatchItems == {ItemA, ItemB, ItemNoMeasurement, ItemEmptyMeasurement, ItemNoFields, JNull}
BatchMsgs == {Msg(p) : p \in {JNull, ObjX, StrA} \cup Arrays(BatchItems)}

NodeQueries == {JStr(<<>>), JStr(<<"q">>)}
MsgQueries == {JStr(<<>>), JStr(<<"q", "2">>)}
InMsgs == {Msg(JNull)} \cup {MsgWith(JNull, "query", q) : q \in MsgQueries}

Rows == {Obj([k \in {"a"} |-> JNum(1, 0)]), Obj([k \in {"a"} |-> JNum(2, 0)])}

\* Messages of several points each, for the interleaved runs.
ConcOutMsgs == {Msg(Arr(<<e1, e2>>)) : e1, e2 \in {Arr(<<ObjTimeX>>), Arr(<<ObjX, ObjT>>)}}
ConcBatchMsgs == {Msg(Arr(<<e1, e2>>)) : e1, e2 \in {ItemA, ItemB, ItemNoMeasurement}}

\* ------------------------------------------------------- specifications
\* No handler invocation is in flight.
Quiet == \A m \in Msgs : inv[m].st = "idle"

\* Messages are delivered one at a time, over the whole input space.
Next ==
    \/ InfluxConfigNode
    \/ NoConfigNode
    \/ \E measurement \in NodeMeasurements : InfluxOutNode(measurement)
    \/ InfluxBatchNode
    \/ \E query \in NodeQueries : InfluxInNode(query)
    \/ \E m \in Msgs :
        \/ Quiet /\ \E msg \in OutMsgs : OutInput(m, msg)
        \/ Quiet /\ \E msg \in BatchMsgs : BatchInput(m, msg)
        \/ Quiet /\ \E msg \in InMsgs : InInput(m, msg)
        \/ Quiet /\ \E msg \in OutMsgs : Unhandled(m, "out", msg)
        \/ Quiet /\ \E msg \in BatchMsgs : Unhandled(m, "batch", msg)
        \/ Quiet /\ \E msg \in InMsgs : Unhandled(m, "in", msg)
        \/ WriteResolve(m)
        \/ WriteReject(m)
        \/ QueryResolve(m)
        \/ QueryReject(m)
        \/ \E row \in Rows : RowNext(m, row)
        \/ RowEnd(m)
        \/ RowError(m)
        \/ Release(m)

Spec == Init /\ [][Next]_vars

\* Up to MaxInFlight write handlers run interleaved on the one client.
NextConc ==
    \/ InfluxConfigNode
    \/ InfluxOutNode(JStr(<<"m">>))
    \/ InfluxBatchNode
    \/ InfluxInNode(JStr(<<"q">>))
    \/ \E m \in Msgs :
        \/ \E msg \in ConcOutMsgs : OutInput(m, msg)
        \/ \E msg \in ConcBatchMsgs : BatchInput(m, msg)
        \/ WriteResolve(m)
        \/ WriteReject(m)
        \/ Release(m)

SpecConc == Init /\ [][NextConc]_vars

\* ----------------------------------------------------------------- claims
Count(trace, e) == Cardinality({p \in DOMAIN trace : trace[p] = e})
Has(trace, e) == \E p \in DOMAIN trace : trace[p] = e
Payload(h) == Get(h.msg, "payload")
Active(h) == h.st \notin {"idle", "unhandled"}

\* The measurement the out node resolves for the message of h.
Resolved(h) == IF HasOwn(h.msg, "measurement") THEN h.msg.o.measurement ELSE nodeMeasurement

\* C1: the writes of one message of the out or batch node are strictly
\* sequential (a write starts only after the previous write of the same message
\* completed, at most one is outstanding) and follow the construction order of
\* its points, which is the payload order, whatever other handlers do meanwhile.
C1_WritesSequentialInOrder ==
    \A m \in Msgs :
        LET h == inv[m]
        IN h.node \in {"out", "batch"} =>
            /\ Count(h.trace, "write") - Count(h.trace, "wok") - Count(h.trace, "werr") <= 1
            /\ \A p \in DOMAIN h.trace :
                  (h.trace[p] = "write" /\ p > 1) => h.trace[p - 1] = "wok"
            /\ Len(h.wlog) = Count(h.trace, "write")
            /\ \A j \in DOMAIN h.wlog :
                  /\ j \in DOMAIN h.points /\ h.wlog[j] = h.points[j]
                  /\ h.wlog[j].src = 0 => Len(h.wlog) = 1
                  /\ h.wlog[j].src # 0 =>
                        /\ h.wlog[j].src \in DOMAIN Payload(h).a
                        /\ h.wlog[j].p =
                              IF h.node = "out"
                              THEN PointFromPair(Resolved(h), Payload(h).a[h.wlog[j].src])
                              ELSE BatchPoint(Payload(h).a[h.wlog[j].src])
            /\ \A j, k \in DOMAIN h.wlog : j < k => h.wlog[j].src < h.wlog[k].src

\* Two handlers are in flight on the client; one has written its two points in
\* turn, the other has a write outstanding.
C1_Witness ==
    \E m1, m2 \in Msgs :
        /\ m1 # m2
        /\ inv[m1].st = "awaitWrite" /\ Len(inv[m1].wlog) = 2
        /\ inv[m1].wlog[1].p # inv[m1].wlog[2].p
        /\ inv[m2].st = "awaitWrite"

\* No measurement / no array / no query for the message of h.
LocalValidationFails(h) ==
    \/ /\ h.node = "out"
       /\ ~Truthy(Get(h.msg, "measurement"))
       /\ ~Truthy(nodeMeasurement)
    \/ /\ h.node = "batch"
       /\ ~isArray(Payload(h))
    \/ /\ h.node = "in"
       /\ ~Truthy(Get(h.msg, "query"))
       /\ ~Truthy(nodeQuery)

\* C2: a message that fails local validation (out: no measurement on the
\* message or the node; batch: payload not an array; in: no query text) gets
\* done called with a failure, and no client.write or client.query call is made
\* for it.
C2_ValidationBeforeClient ==
    \A m \in Msgs :
        LET h == inv[m]
        IN (Active(h) /\ LocalValidationFails(h)) =>
            /\ h.st = "done"
            /\ Len(h.dones) = 1
            /\ Truthy(h.dones[1].arg)
            /\ h.wlog = <<>>
            /\ h.trace = <<"done">>

\* The out node rejects a message of two [fields, tags] pairs for want of a
\* measurement.
C2_Witness ==
    \E m \in Msgs :
        /\ inv[m].node = "out" /\ inv[m].st = "done"
        /\ LocalValidationFails(inv[m])
        /\ isArray(Payload(inv[m])) /\ Len(Payload(inv[m]).a) = 2
        /\ isArray(Payload(inv[m]).a[1])

\* msg.influx_error = {errorMessage: <some text>}
Annotated(msg) ==
    /\ "influx_error" \in DOMAIN msg.o
    /\ isPlainObject(msg.o["influx_error"])
    /\ DOMAIN msg.o["influx_error"].o = {"errorMessage"}

\* C3: whenever done is called with a failure (client error or local validation
\* failure alike), the message carries influx_error = {errorMessage} at that
\* moment.
C3_FailureAnnotated ==
    \A m \in Msgs :
        \A d \in DOMAIN inv[m].dones :
            Truthy(inv[m].dones[d].arg) => Annotated(inv[m].dones[d].msg)

\* Every item of the batch payload is a record.
ItemsAreRecords(payload) == \A j \in DOMAIN payload.a : isPlainObject(payload.a[j])

\* A batch item that has a non-empty measurement and a fields mapping.
Qualifies(item) ==
    /\ Truthy(Get(item, "measurement"))
    /\ isPlainObject(Get(item, "fields"))

RECURSIVE QualifyingFrom(_, _)
QualifyingFrom(a, j) ==
    IF j > Len(a) THEN <<>>
    ELSE (IF Qualifies(a[j]) THEN <<j>> ELSE <<>>) \o QualifyingFrom(a, j + 1)

\* C4: in the batch node, for an array payload of item records, a write is
\* issued for an item if and only if the item has a non-empty measurement and a
\* fields mapping; the other items are skipped without error and without a
\* write, and the surviving items are written in payload order.
C4_BatchWritesExactlyQualifying ==
    \A m \in Msgs :
        LET h == inv[m]
        IN (h.node = "batch" /\ Active(h) /\ isArray(Payload(h))
              /\ ItemsAreRecords(Payload(h))) =>
            /\ \A j \in DOMAIN h.wlog : Qualifies(Payload(h).a[h.wlog[j].src])
            /\ (h.st = "done" /\ ~Has(h.trace, "werr")) =>
                  /\ h.dones[1].arg = Undefined
                  /\ [j \in DOMAIN h.wlog |-> h.wlog[j].src] = QualifyingFrom(Payload(h).a, 1)

RowEvents(n) == [j \in 1..n |-> "row"]

\* C5: in the in node send is called at most once per message; when it is
\* called, the query succeeded and every row was received before it, done
\* follows it, and the payload sent is the list of the rows in the order the
\* client produced them; a successful drain always sends; a failed query or
\* drain never sends.
C5_DrainThenSendOnce ==
    \A m \in Msgs :
        LET h == inv[m]
        IN h.node = "in" =>
            /\ Len(h.sent) <= 1
            /\ h.sent # <<>> =>
                  /\ h.st = "done"
                  /\ Get(h.sent[1], "payload") = Arr(h.produced)
                  /\ h.trace = <<"query", "qok">> \o RowEvents(Len(h.produced))
                                \o <<"end", "send", "done">>
                  /\ Len(h.dones) = 1 /\ h.dones[1].arg = Undefined
            /\ Has(h.trace, "end") => Len(h.sent) = 1
            /\ (Has(h.trace, "qerr") \/ Has(h.trace, "rowerr")) => h.sent = <<>>

\* A query that yielded two different rows was forwarded.
C5_Witness ==
    \E m \in Msgs :
        /\ inv[m].node = "in" /\ inv[m].st = "done"
        /\ Len(inv[m].sent) = 1
        /\ Len(inv[m].produced) = 2
        /\ inv[m].produced[1] # inv[m].produced[2]

\* C6: in the out node with a resolvable measurement the payload shape fixes
\* the points built: an array whose first element is an array gives one point
\* per element in payload order, any other array one point, a plain object one
\* point, any other value one point with the single field "value" and no tags.
C6_PointsByPayloadShape ==
    \A m \in Msgs :
        LET h == inv[m]
            payload == Payload(h)
        IN (h.node = "out" /\ Active(h) /\ Truthy(Resolved(h))) =>
            IF isArray(payload) /\ Len(payload.a) > 0 /\ isArray(payload.a[1])
            THEN /\ Len(h.points) = Len(payload.a)
                 /\ \A j \in DOMAIN h.points : h.points[j].src = j
            ELSE /\ Len(h.points) = 1
                 /\ (~isArray(payload) /\ ~isPlainObject(payload)) =>
                       /\ DOMAIN h.points[1].p.fields = {"value"}
                       /\ h.points[1].p.tags = EmptyMap

\* The handler of the out node built its point from a plain object payload.
PlainObjectCase(h) ==
    /\ h.node = "out" /\ Active(h) /\ Truthy(Resolved(h))
    /\ isPlainObject(Payload(h))

\* C7 as stated: for a plain object payload the single point has no tags, and
\* every key of the object other than "time" is a field of it.
C7_Original ==
    \A m \in Msgs :
        LET h == inv[m]
        IN PlainObjectCase(h) =>
            /\ Len(h.points) = 1
            /\ h.points[1].p.tags = EmptyMap
            /\ DOMAIN h.points[1].p.fields = DOMAIN Payload(h).o \ {"time"}

\* C7 as amended: for a plain object payload the single point takes its tags
\* from the "tags" key when that key holds a plain object (each tag value as a
\* string) and has no tags otherwise; every other key except "time" is a field.
C7_PlainObjectFieldsAndTags ==
    \A m \in Msgs :
        LET h == inv[m]
            o == Payload(h).o
            tagged == "tags" \in DOMAIN o /\ isPlainObject(o["tags"])
        IN PlainObjectCase(h) =>
            /\ Len(h.points) = 1
            /\ h.points[1].p.tags =
                  IF tagged THEN [k \in DOMAIN o["tags"].o |-> String(o["tags"].o[k])]
                  ELSE EmptyMap
            /\ DOMAIN h.points[1].p.fields =
                  (DOMAIN o \ {"time"}) \ (IF tagged THEN {"tags"} ELSE {})

\* A plain object with x, time and a tags object was turned into a point.
C7_Witness ==
    \E m \in Msgs :
        /\ PlainObjectCase(inv[m])
        /\ DOMAIN Payload(inv[m]).o = {"x", "time", "tags"}
        /\ isPlainObject(Payload(inv[m]).o["tags"])
        /\ Len(inv[m].wlog) = 1
        /\ DOMAIN inv[m].wlog[1].p.tags = {"t"}

\* C8: no point built from a fields mapping, on the out node's paths or on the
\* batch path, has a field named "time".
C8_NoTimeField ==
    \A m \in Msgs :
        \A j \in DOMAIN inv[m].points : "time" \notin DOMAIN inv[m].points[j].p.fields

\* C9 as stated: after a failed client construction there is no second
\* construction and no client call, and every input delivered to a node of
\* that config ends with done called with a failure.
C9_Original ==
    config = "failed" =>
        /\ constructCalls = 1
        /\ \A m \in Msgs :
              /\ inv[m].wlog = <<>>
              /\ ~Has(inv[m].trace, "query")
              /\ inv[m].st # "idle" =>
                    /\ inv[m].dones # <<>>
                    /\ Truthy(inv[m].dones[1].arg)

\* C9 as amended: after a failed client construction there is no second
\* construction, no node of that config registers an input handler, and every
\* input delivered to such a node is ignored: no client call, no send and no
\* call of done.
C9_FailedConfigInert ==
    config = "failed" =>
        /\ constructCalls = 1
        /\ \A n \in Nodes : handler[n] # "registered"
        /\ \A m \in Msgs :
              /\ inv[m].st \in {"idle", "unhandled"}
              /\ inv[m].wlog = <<>>
              /\ inv[m].trace = <<>>
              /\ inv[m].dones = <<>>
              /\ inv[m].sent = <<>>

\* A message was delivered to the out node of a config whose client failed.
C9_Witness ==
    /\ config = "failed"
    /\ \E m \in Msgs : inv[m].st = "unhandled" /\ inv[m].node = "out"

\* C10: a message of the out or batch node gets done called at most once, and
\* exactly once when its handling is over; after a failed write no further
\* write of the message is issued (neither the failed one again nor a later
\* point), and the one done call carries the client's error.
C10_OneDoneNoRetry ==
    \A m \in Msgs :
        LET h == inv[m]
            n == Len(h.trace)
        IN h.node \in {"out", "batch"} =>
            /\ Len(h.dones) = Count(h.trace, "done")
            /\ Len(h.dones) = IF h.st = "done" THEN 1 ELSE 0
            /\ h.st = "done" => h.trace[n] = "done"
            /\ Has(h.trace, "werr") =>
                  /\ h.st = "done"
                  /\ n >= 3
                  /\ h.trace[n - 2] = "write" /\ h.trace[n - 1] = "werr"
                  /\ Count(h.trace, "werr") = 1
                  /\ h.dones[1].arg = ClientError
                  /\ \A j, k \in DOMAIN h.wlog : j # k => h.wlog[j].src # h.wlog[k].src

\* The first write of a two-point message failed: handling is over with one
\* write issued and the second point dropped.
C10_Witness ==
    \E m \in Msgs :
        /\ inv[m].node = "out" /\ inv[m].st = "done"
        /\ Has(inv[m].trace, "werr")
        /\ Len(inv[m].points) = 2
        /\ Len(inv[m].wlog) = 1

====
